---- MODULE Spec2Model ----
(***************************************************************************)
(* The request handlers of api/views.py (a Flask-RESTful catalogue API:    *)
(* categories, products, users, e-mail confirmation) over the committed    *)
(* contents of the database.  A table is the sequence of its rows in       *)
(* primary-key order.  Every handler is one action; a paginated listing is *)
(* two (its count read and its slice read), so that other requests can     *)
(* commit between them.  The requests modelled are those that passed the   *)
(* authentication gate.  The one-step handlers run one at a time.          *)
(*                                                                         *)
(* Names, e-mail addresses, prices and passwords are abstract tokens: the  *)
(* naturals from 1; the token 0 is a value the schema (or the password     *)
(* strength check) rejects.  A request field that may be absent is <<>>    *)
(* when absent and <<v>> when it carries v.  Of a product's columns the    *)
(* model keeps product, price and category; size, quantity, printed_times  *)
(* and printed_once are handled by the code exactly as price is.           *)
(***************************************************************************)
EXTENDS Integers, Sequences, FiniteSets, TLC

\* ------------------------------------------------------------------ bounds
MaxId == 2          \* primary keys handed out per table
MaxWriteId == 1     \* the same, in SpecWrites
MaxName == 2        \* names (and e-mail addresses) are 1..MaxName
MaxPrice == 1       \* prices are 1..MaxPrice
MaxRows == 101      \* rows per table in the static tables of SpecPaginate
MaxPageArg == 6     \* page numbers requested: 0..MaxPageArg
MaxClock == 3       \* readings of datetime.now()

\* --------------------------------------------------------- program constants
HTTP_200_OK == 200
HTTP_201_CREATED == 201
HTTP_204_NO_CONTENT == 204
HTTP_400_BAD_REQUEST == 400
HTTP_401_UNAUTHORIZED == 401
HTTP_404_NOT_FOUND == 404
\* the pagination configuration (PAGINATION_PAGE_SIZE and its maximum)
DefaultPerPage == 25
MaxPerPage == 100

VARIABLES
    categories,       \* table category: rows [id, name]
    products,         \* table product: rows [id, product, price, category]
    users,            \* table user: rows [id, name, email, confirmed, confirmed_on]
    next_id,          \* the next primary key of each table
    Product_product,  \* the class attribute Product.product: "column" while it
                      \* is the mapped column, "str" once line 125 has
                      \* assigned a name to it
    issued,           \* the confirmation tokens issued
    now,              \* the clock
    response,         \* the last response of a one-step handler
    listing,          \* the paginated listing request in flight
    page_response     \* the last response of a paginated listing

vars == <<categories, products, users, next_id, Product_product, issued, now,
          response, listing, page_response>>

Names == 1..MaxName
Prices == 1..MaxPrice
Opt(S) == {<<>>} \cup {<<v>> : v \in S}

\* ------------------------------------------------------------------ tables
HasId(table, id) == \E i \in DOMAIN table : table[i].id = id

\* Model.query.get(id), after get_or_404 has found the row
Get(table, id) == table[CHOOSE i \in DOMAIN table : table[i].id = id]

\* resource.add(resource): INSERT, the new row has the highest key
Add(table, row) == Append(table, row)

\* resource.update(): UPDATE of the row with this key
Update(table, row) ==
    [i \in DOMAIN table |-> IF table[i].id = row.id THEN row ELSE table[i]]

\* resource.delete(resource): DELETE of the row with this key
Delete(table, id) == SelectSeq(table, LAMBDA r : r.id # id)

\* Category.query.filter_by(name=name).first()
CategoryByName(name) ==
    IF \E i \in DOMAIN categories : categories[i].name = name
    THEN <<categories[CHOOSE i \in DOMAIN categories :
                 /\ categories[i].name = name
                 /\ \A j \in DOMAIN categories :
                        categories[j].name = name => i <= j]>>
    ELSE <<>>

\* Category.is_unique(id, name): no other category holds the name
Category_is_unique(id, name) ==
    \A i \in DOMAIN categories :
        categories[i].name = name => categories[i].id = id

\* Product.is_unique(id, product): no other product holds the name
Product_is_unique(id, product) ==
    \A i \in DOMAIN products :
        products[i].product = product => products[i].id = id

\* schema.validate(dict): the errors of the fields the dict carries
category_schema_validate(name) == name # <<>> /\ name[1] \notin Names
product_schema_validate(product, price, category) ==
    \/ product # <<>> /\ product[1] \notin Names
    \/ price # <<>> /\ price[1] \notin Prices
    \/ category # <<>> /\ category[1] \notin Names

\* category_schema.dump(category).data
category_schema_dump(c) == [id |-> c.id, name |-> c.name]

\* product_schema.dump(product).data: the category is nested
product_schema_dump(p) ==
    [id |-> p.id, product |-> p.product, price |-> p.price,
     category |-> IF HasId(categories, p.category)
                  THEN <<category_schema_dump(Get(categories, p.category))>>
                  ELSE <<>>]

\* --------------------------------------------------------------- responses
\* a response, with the handler and the request it answers
NoResponse == [handler |-> "", request |-> <<>>, status |-> 0, error |-> "",
               body |-> <<>>, rollback |-> FALSE]
Respond(handler, request, status, error, body) ==
    [handler |-> handler, request |-> request, status |-> status,
     error |-> error, body |-> body, rollback |-> FALSE]

\* Requests are served one at a time: a handler runs once the response
\* before it has left
Waiting == response.handler = ""
Deliver ==
    /\ ~Waiting
    /\ response' = NoResponse
    /\ UNCHANGED <<categories, products, users, next_id, Product_product,
                   issued, now, listing, page_response>>

\* except SQLAlchemyError: db.session.rollback(); return {"error": str(e)}, code
RolledBack(handler, request, status) ==
    [handler |-> handler, request |-> request, status |-> status,
     error |-> "SQLAlchemyError", body |-> <<>>, rollback |-> TRUE]

\* db.session.rollback(): the tables are the committed ones again; what the
\* failed transaction had flushed is gone
rollback_mut(committed, flushed) == flushed
rollback(committed, flushed) == committed


\* the committed tables, and the step that leaves them as t
Tables == [categories |-> categories, products |-> products, users |-> users]
SetTables(t) ==
    /\ categories' = t.categories
    /\ products' = t.products
    /\ users' = t.users

\* a handler returns without db.session.commit(): the objects it assigned to
\* are dropped with the request's session, the tables stay as committed
Discard_mut(committed, row) ==
    [committed EXCEPT !.products = Update(committed.products, row)]
Discard(committed, row) == committed

\* ------------------------------------------------- /categories/<int:id>
\* category_dict: <<>> no input data, <<<<>>>> a body without 'name',
\* <<<<n>>>> a body whose 'name' is n
CategoryResource_patch(id, category_dict) ==
    /\ Waiting
    /\ UNCHANGED <<next_id, Product_product, issued, now, listing, page_response>>
    /\ IF ~HasId(categories, id)
       THEN /\ SetTables(Tables)
            /\ response' = Respond("CategoryResource.patch", <<id, category_dict>>, HTTP_404_NOT_FOUND,
                                   "Not Found", <<>>)
       ELSE IF category_dict = <<>>
       THEN /\ SetTables(Tables)
            /\ response' = Respond("CategoryResource.patch", <<id, category_dict>>, HTTP_400_BAD_REQUEST,
                                   "No input data provided", <<>>)
       ELSE IF category_schema_validate(category_dict[1])
       THEN /\ SetTables(Tables)
            /\ response' = Respond("CategoryResource.patch", <<id, category_dict>>, HTTP_400_BAD_REQUEST,
                                   "validation", <<>>)
       ELSE IF category_dict[1] # <<>> /\ ~Category_is_unique(id, category_dict[1][1])
       THEN /\ SetTables(Tables)
            /\ response' = Respond("CategoryResource.patch", <<id, category_dict>>, HTTP_400_BAD_REQUEST,
                                   "A category with the same name already exists", <<>>)
       ELSE LET category == Get(categories, id)
                patched == IF category_dict[1] # <<>>
                           THEN [category EXCEPT !.name = category_dict[1][1]]
                           ELSE category
                flushed == [Tables EXCEPT !.categories = Update(categories, patched)]
            IN  \E fails \in BOOLEAN : IF fails
                THEN /\ SetTables(rollback(Tables, flushed))
                     /\ response' = RolledBack("CategoryResource.patch", <<id, category_dict>>,
                                               HTTP_400_BAD_REQUEST)
                ELSE /\ SetTables(flushed)
                     /\ response' = Respond("CategoryResource.patch", <<id, category_dict>>, HTTP_200_OK, "",
                                            <<category_schema_dump(patched)>>)

\* the products of a deleted category go with it
CategoryResource_delete(id) ==
    /\ Waiting
    /\ UNCHANGED <<next_id, Product_product, issued, now, listing, page_response>>
    /\ IF ~HasId(categories, id)
       THEN /\ SetTables(Tables)
            /\ response' = Respond("CategoryResource.delete", <<id>>, HTTP_404_NOT_FOUND,
                                   "Not Found", <<>>)
       ELSE LET flushed == [Tables EXCEPT
                              !.categories = Delete(categories, id),
                              !.products = SelectSeq(products,
                                               LAMBDA p : p.category # id)]
            IN  \E fails \in BOOLEAN : IF fails
                THEN /\ SetTables(rollback(Tables, flushed))
                     /\ response' = RolledBack("CategoryResource.delete", <<id>>,
                                               HTTP_401_UNAUTHORIZED)
                ELSE /\ SetTables(flushed)
                     /\ response' = Respond("CategoryResource.delete", <<id>>,
                                            HTTP_204_NO_CONTENT, "", <<>>)

\* ------------------------------------------------------------ /categories/
\* Category.query.all(), dumped with many=True: every row of the table
CategoryList_body == [i \in DOMAIN categories |-> category_schema_dump(categories[i])]

CategoryListResource_get ==
    /\ Waiting
    /\ UNCHANGED <<categories, products, users, next_id, Product_product,
                   issued, now, listing, page_response>>
    /\ response' = Respond("CategoryListResource.get", <<>>, HTTP_200_OK, "",
                           CategoryList_body)

\* the name a new row would get must be free (is_unique with id 0, the id of
\* no row)
CategoryNameTaken_mut(name) == FALSE
CategoryNameTaken(name) == ~Category_is_unique(0, name)

\* request_dict: <<>> no input data, <<n>> a body whose 'name' is n
CategoryListResource_post(request_dict) ==
    /\ Waiting
    /\ UNCHANGED <<Product_product, issued, now, listing, page_response>>
    /\ IF request_dict = <<>>
       THEN /\ SetTables(Tables) /\ UNCHANGED next_id
            /\ response' = Respond("CategoryListResource.post", request_dict, HTTP_400_BAD_REQUEST,
                                   "No input data provided", <<>>)
       ELSE IF category_schema_validate(request_dict)
       THEN /\ SetTables(Tables) /\ UNCHANGED next_id
            /\ response' = Respond("CategoryListResource.post", request_dict, HTTP_400_BAD_REQUEST,
                                   "validation", <<>>)
       ELSE IF CategoryNameTaken(request_dict[1])
       THEN /\ SetTables(Tables) /\ UNCHANGED next_id
            /\ response' = Respond("CategoryListResource.post", request_dict, HTTP_400_BAD_REQUEST,
                                   "A category with the same name already exists", <<>>)
       ELSE LET category == [id |-> next_id.category, name |-> request_dict[1]]
                flushed == [Tables EXCEPT !.categories = Add(categories, category)]
            IN  \E fails \in BOOLEAN : IF fails
                   THEN /\ SetTables(rollback(Tables, flushed)) /\ UNCHANGED next_id
                        /\ response' = RolledBack("CategoryListResource.post", request_dict,
                                                  HTTP_400_BAD_REQUEST)
                   ELSE /\ SetTables(flushed)
                        /\ next_id' = [next_id EXCEPT !.category = @ + 1]
                        /\ response' = Respond("CategoryListResource.post", request_dict,
                                               HTTP_201_CREATED, "",
                                               <<category_schema_dump(category)>>)

\* --------------------------------------------------- /products/<int:id>
\* product_dict: [product, price], each <<>> when the body lacks the key.
\* The new name is assigned to the loaded product (line 123) before
\* is_unique is asked (line 124); a unique name is also assigned to the
\* class attribute Product.product (line 125).
ProductResource_patch(id, product_dict) ==
    /\ Waiting
    /\ UNCHANGED <<next_id, issued, now, listing, page_response>>
    /\ IF ~HasId(products, id)
       THEN /\ SetTables(Tables) /\ UNCHANGED Product_product
            /\ response' = Respond("ProductResource.patch", <<id, product_dict>>, HTTP_404_NOT_FOUND,
                                   "Not Found", <<>>)
       ELSE LET product == Get(products, id)
                named == IF product_dict.product # <<>>
                         THEN [product EXCEPT !.product = product_dict.product[1]]
                         ELSE product
                patched == IF product_dict.price # <<>>
                           THEN [named EXCEPT !.price = product_dict.price[1]]
                           ELSE named
                flushed == [Tables EXCEPT !.products = Update(products, patched)]
            IN  IF product_dict.product # <<>> /\ ~Product_is_unique(id, named.product)
                THEN /\ SetTables(Discard(Tables, named)) /\ UNCHANGED Product_product
                     /\ response' = Respond("ProductResource.patch", <<id, product_dict>>,
                                            HTTP_400_BAD_REQUEST,
                                            "A message with the same name already exists",
                                            <<>>)
                ELSE /\ Product_product' = IF product_dict.product # <<>>
                                           THEN "str"
                                           ELSE Product_product
                     /\ IF product_schema_validate(<<patched.product>>,
                                                   <<patched.price>>, <<>>)
                        THEN /\ SetTables(Discard(Tables, patched))
                             /\ response' = Respond("ProductResource.patch", <<id, product_dict>>,
                                                    HTTP_400_BAD_REQUEST,
                                                    "validation", <<>>)
                        ELSE \E fails \in BOOLEAN : IF fails
                        THEN /\ SetTables(rollback(Tables, flushed))
                             /\ response' = RolledBack("ProductResource.patch", <<id, product_dict>>,
                                                       HTTP_400_BAD_REQUEST)
                        ELSE /\ SetTables(flushed)
                             /\ response' = Respond("ProductResource.patch", <<id, product_dict>>,
                                                    HTTP_200_OK, "",
                                                    <<product_schema_dump(patched)>>)

ProductResource_delete(id) ==
    /\ Waiting
    /\ UNCHANGED <<next_id, Product_product, issued, now, listing, page_response>>
    /\ IF ~HasId(products, id)
       THEN /\ SetTables(Tables)
            /\ response' = Respond("ProductResource.delete", <<id>>, HTTP_404_NOT_FOUND,
                                   "Not Found", <<>>)
       ELSE LET flushed == [Tables EXCEPT !.products = Delete(products, id)]
            IN  \E fails \in BOOLEAN : IF fails
                THEN /\ SetTables(rollback(Tables, flushed))
                     /\ response' = RolledBack("ProductResource.delete", <<id>>,
                                               HTTP_401_UNAUTHORIZED)
                ELSE /\ SetTables(flushed)
                     /\ response' = Respond("ProductResource.delete", <<id>>,
                                            HTTP_204_NO_CONTENT, "", <<>>)

\* -------------------------------------------------------------- /products/
\* lines 189-194: the category of that name, a new one when there is none
InlineCategory(category_name) ==
    IF CategoryByName(category_name) = <<>>
    THEN [id |-> next_id.category, name |-> category_name]
    ELSE CategoryByName(category_name)[1]

\* request_dict: <<>> no input data, else <<[product, price, category]>>,
\* category being the category's name
ProductListResource_post(request_dict) ==
    /\ Waiting
    /\ UNCHANGED <<Product_product, issued, now, listing, page_response>>
    /\ IF request_dict = <<>>
       THEN /\ SetTables(Tables) /\ UNCHANGED next_id
            /\ response' = Respond("ProductListResource.post", request_dict, HTTP_400_BAD_REQUEST,
                                   "No input data provided", <<>>)
       ELSE IF product_schema_validate(<<request_dict[1].product>>,
                                       <<request_dict[1].price>>,
                                       <<request_dict[1].category>>)
       THEN /\ SetTables(Tables) /\ UNCHANGED next_id
            /\ response' = Respond("ProductListResource.post", request_dict, HTTP_400_BAD_REQUEST,
                                   "validation", <<>>)
       ELSE IF ~Product_is_unique(0, request_dict[1].product)
       THEN /\ SetTables(Tables) /\ UNCHANGED next_id
            /\ response' = Respond("ProductListResource.post", request_dict, HTTP_400_BAD_REQUEST,
                                   "A product with the same name already exists", <<>>)
       ELSE LET category == InlineCategory(request_dict[1].category)
                created == ~HasId(categories, category.id)
                product == [id |-> next_id.product,
                            product |-> request_dict[1].product,
                            price |-> request_dict[1].price,
                            category |-> category.id]
                flushed == [Tables EXCEPT
                              !.categories = IF created THEN Add(categories, category)
                                             ELSE categories,
                              !.products = Add(products, product)]
            IN  \E fails \in BOOLEAN : IF fails
                   THEN /\ SetTables(rollback(Tables, flushed)) /\ UNCHANGED next_id
                        /\ response' = RolledBack("ProductListResource.post", request_dict,
                                                  HTTP_400_BAD_REQUEST)
                   ELSE /\ SetTables(flushed)
                        /\ next_id' = [next_id EXCEPT
                                         !.product = @ + 1,
                                         !.category = IF created THEN @ + 1 ELSE @]
                        /\ response' = Respond("ProductListResource.post", request_dict,
                                               HTTP_201_CREATED, "",
                                               <<[id |-> product.id,
                                                  product |-> product.product,
                                                  price |-> product.price,
                                                  category |-> <<category_schema_dump(category)>>]>>)

\* ------------------------------------------------------------------ users
\* user_schema.validate(dict) and user_schema.dump(user).data
user_schema_validate(name, email) == name \notin Names \/ email \notin Names
user_schema_dump(u) == [id |-> u.id, name |-> u.name, email |-> u.email]

\* user.check_password_strength_and_hash_if_ok(password): password_ok
password_ok(password) == password >= 1

\* User.query.filter_by(email=email).first()
UserByEmail(email) ==
    IF \E i \in DOMAIN users : users[i].email = email
    THEN <<users[CHOOSE i \in DOMAIN users :
                 /\ users[i].email = email
                 /\ \A j \in DOMAIN users : users[j].email = email => i <= j]>>
    ELSE <<>>

\* generate_confirmation_token(email): a signed token carrying the address
generate_confirmation_token(email) ==
    [email |-> email, signed |-> TRUE, expired |-> FALSE]

\* confirm_token(token): the e-mail address of a token that is signed and
\* not expired, <<>> standing for the exception raised otherwise
confirm_token(token) ==
    IF token.signed /\ ~token.expired THEN <<token.email>> ELSE <<>>

\* line 50: is the account confirmed already?
AlreadyConfirmed_mut(user) == FALSE
AlreadyConfirmed(user) == user.confirmed

\* token: [email, signed, expired]; a signed token is one the server issued
ConfirmTokenResources_get(token) ==
    /\ Waiting
    /\ UNCHANGED <<next_id, Product_product, issued, now, listing, page_response>>
    /\ token.signed => [token EXCEPT !.expired = FALSE] \in issued
    /\ IF confirm_token(token) = <<>>
       THEN /\ SetTables(Tables)
            /\ response' = Respond("ConfirmTokenResources.get", token, HTTP_400_BAD_REQUEST,
                                   "The confirmation link is invalid or has expired.",
                                   <<>>)
       ELSE IF UserByEmail(confirm_token(token)[1]) = <<>>
       THEN /\ SetTables(Tables)
            /\ response' = Respond("ConfirmTokenResources.get", token, HTTP_404_NOT_FOUND,
                                   "Not Found", <<>>)
       ELSE LET user == UserByEmail(confirm_token(token)[1])[1]
            IN  IF AlreadyConfirmed(user)
                THEN /\ SetTables(Tables)
                     /\ response' = Respond("ConfirmTokenResources.get", token, HTTP_200_OK,
                                            "", <<>>)
                ELSE /\ SetTables([Tables EXCEPT !.users =
                                      Update(users, [user EXCEPT
                                                       !.confirmed = TRUE,
                                                       !.confirmed_on = <<now>>])])
                     /\ response' = Respond("ConfirmTokenResources.get", token,
                                            HTTP_201_CREATED, "", <<>>)

\* request_dict: <<>> no input data, else <<[name, email, password]>>.
\* Only the name is checked against the stored users (lines 84-87).
UserListResource_post(request_dict) ==
    /\ Waiting
    /\ UNCHANGED <<Product_product, now, listing, page_response>>
    /\ IF request_dict = <<>>
       THEN /\ SetTables(Tables) /\ UNCHANGED <<next_id, issued>>
            /\ response' = Respond("UserListResource.post", request_dict, HTTP_400_BAD_REQUEST,
                                   "No input data provided", <<>>)
       ELSE IF user_schema_validate(request_dict[1].name, request_dict[1].email)
       THEN /\ SetTables(Tables) /\ UNCHANGED <<next_id, issued>>
            /\ response' = Respond("UserListResource.post", request_dict, HTTP_400_BAD_REQUEST,
                                   "validation", <<>>)
       ELSE IF \E i \in DOMAIN users : users[i].name = request_dict[1].name
       THEN /\ SetTables(Tables) /\ UNCHANGED <<next_id, issued>>
            /\ response' = Respond("UserListResource.post", request_dict, HTTP_400_BAD_REQUEST,
                                   "An user with the same name already exists", <<>>)
       ELSE IF ~password_ok(request_dict[1].password)
       THEN /\ SetTables(Tables) /\ UNCHANGED <<next_id, issued>>
            /\ response' = Respond("UserListResource.post", request_dict, HTTP_400_BAD_REQUEST,
                                   "password", <<>>)
       ELSE LET user == [id |-> next_id.user, name |-> request_dict[1].name,
                         email |-> request_dict[1].email,
                         confirmed |-> FALSE, confirmed_on |-> <<>>]
                flushed == [Tables EXCEPT !.users = Add(users, user)]
            IN  \E fails \in BOOLEAN : IF fails
                   THEN /\ SetTables(rollback(Tables, flushed))
                        /\ UNCHANGED <<next_id, issued>>
                        /\ response' = RolledBack("UserListResource.post", request_dict,
                                                  HTTP_400_BAD_REQUEST)
                   ELSE /\ SetTables(flushed)
                        /\ next_id' = [next_id EXCEPT !.user = @ + 1]
                        /\ issued' = issued \cup
                                       {generate_confirmation_token(user.email)}
                        /\ response' = Respond("UserListResource.post", request_dict,
                                               HTTP_201_CREATED, "",
                                               <<user_schema_dump(user)>>)

\* time passes between requests
Tick ==
    /\ now < MaxClock
    /\ now' = now + 1
    /\ UNCHANGED <<categories, products, users, next_id, Product_product,
                   issued, response, listing, page_response>>

\* ------------------------------------------------------------- pagination
\* PaginationHelper (helpers.py): the page size of a request
ClampPerPage_mut(per_page_arg) ==
    IF per_page_arg = <<>> THEN DefaultPerPage
    ELSE IF per_page_arg[1] < 1 THEN 1
    ELSE per_page_arg[1]
ClampPerPage(per_page_arg) ==
    IF per_page_arg = <<>> THEN DefaultPerPage
    ELSE IF per_page_arg[1] < 1 THEN 1
    ELSE IF per_page_arg[1] > MaxPerPage THEN MaxPerPage
    ELSE per_page_arg[1]

PageNumber(page_arg) == IF page_arg = <<>> THEN 1 ELSE page_arg[1]
Offset(page, per_page) == (page - 1) * per_page
PageCount(total, per_page) == (total + per_page - 1) \div per_page

PageOutOfRange_mut(total, page, per_page) ==
    Offset(page, per_page) > total /\ total > 0
PageOutOfRange(total, page, per_page) ==
    Offset(page, per_page) >= total /\ total > 0

\* query.offset(offset).limit(limit).all()
Slice(rows, offset, limit) ==
    SubSeq(rows, offset + 1,
           IF offset + limit < Len(rows) THEN offset + limit ELSE Len(rows))

\* the links of a page: the page and page size each one encodes
Link(page, per_page) == [page |-> page, per_page |-> per_page]
Page(items, total, page, per_page) ==
    [items |-> items, total |-> total, pages |-> PageCount(total, per_page),
     page |-> page, per_page |-> per_page,
     self |-> Link(page, per_page),
     next |-> IF page < PageCount(total, per_page)
              THEN <<Link(page + 1, per_page)>> ELSE <<>>,
     prev |-> IF page > 1 THEN <<Link(page - 1, per_page)>> ELSE <<>>]

Idle == [pc |-> "idle", resource |-> "", request |-> <<>>, page |-> 0,
         per_page |-> 0, total |-> 0]
NoPage == [resource |-> "", request |-> <<>>, status |-> 0, error |-> "",
           page |-> <<>>]

\* paginate_query, first read: the count of the query; the page is checked
\* against it
paginate_count(resource, rows, page_arg, per_page_arg) ==
    /\ listing.pc = "idle"
    /\ page_response.resource = ""
    /\ UNCHANGED <<categories, products, users, next_id, Product_product,
                   issued, now, response>>
    /\ IF PageNumber(page_arg) < 1
       THEN /\ listing' = Idle
            /\ page_response' = [resource |-> resource,
                                 request |-> <<page_arg, per_page_arg>>,
                                 status |-> HTTP_404_NOT_FOUND,
                                 error |-> "InvalidPage", page |-> <<>>]
       ELSE IF PageOutOfRange(Len(rows), PageNumber(page_arg),
                              ClampPerPage(per_page_arg))
       THEN /\ listing' = Idle
            /\ page_response' = [resource |-> resource,
                                 request |-> <<page_arg, per_page_arg>>,
                                 status |-> HTTP_404_NOT_FOUND,
                                 error |-> "PageOutOfRange", page |-> <<>>]
       ELSE /\ listing' = [pc |-> "counted", resource |-> resource,
                           request |-> <<page_arg, per_page_arg>>,
                           page |-> PageNumber(page_arg),
                           per_page |-> ClampPerPage(per_page_arg),
                           total |-> Len(rows)]
            /\ page_response' = NoPage

\* schema.dump(row).data of the schema the helper was given
schema_dump(schema, row) ==
    IF schema = "product_schema" THEN product_schema_dump(row)
    ELSE user_schema_dump(row)

\* paginate_query, second read: the slice of the query, serialized
paginate_slice(resource, rows, schema) ==
    /\ listing.pc = "counted"
    /\ listing.resource = resource
    /\ UNCHANGED <<categories, products, users, next_id, Product_product,
                   issued, now, response>>
    /\ listing' = Idle
    /\ page_response' =
         [resource |-> resource, request |-> listing.request,
          status |-> HTTP_200_OK, error |-> "",
          page |-> <<Page(LET items == Slice(rows,
                                             Offset(listing.page, listing.per_page),
                                             listing.per_page)
                          IN  [i \in DOMAIN items |-> schema_dump(schema, items[i])],
                          listing.total, listing.page, listing.per_page)>>]

\* the page, or the refusal, leaves
DeliverPage ==
    /\ page_response.resource # ""
    /\ page_response' = NoPage
    /\ UNCHANGED <<categories, products, users, next_id, Product_product,
                   issued, now, response, listing>>

\* query=Product.query and schema=product_schema (lines 169, 172)
ProductList_query_mut == SelectSeq(products, LAMBDA p : p.id # 1)
ProductList_query == products
ProductListResource_get_count(page_arg, per_page_arg) ==
    paginate_count("api.productlistresource", ProductList_query,
                   page_arg, per_page_arg)
ProductListResource_get_slice ==
    paginate_slice("api.productlistresource", ProductList_query,
                   "product_schema")

\* query=User.query and schema=user_schema (lines 67, 70)
UserList_query_mut == SelectSeq(users, LAMBDA u : u.id # 1)
UserList_query == users
UserListResource_get_count(page_arg, per_page_arg) ==
    paginate_count("api.userlistresource", UserList_query, page_arg, per_page_arg)
UserListResource_get_slice ==
    paginate_slice("api.userlistresource", UserList_query, "user_schema")

\* ---------------------------------------------------------- specifications
\* the requests tried
NameArgs == 0..MaxName
PriceArgs == 0..MaxPrice
IdArgs == 1..MaxId
PageArgs == Opt(0..MaxPageArg)
PerPageArgs == Opt({0, 1, DefaultPerPage, MaxPerPage, 10 * MaxPerPage})
SmallPerPageArgs == Opt(1..MaxId)
ProductDicts == [product : Opt(NameArgs), price : Opt(PriceArgs)]
UserRequests == Opt([name : NameArgs, email : NameArgs, password : 0..1])
Tokens == [email : Names, signed : BOOLEAN, expired : BOOLEAN]

\* The tables start empty.
InitCatalog ==
    /\ categories = <<>>
    /\ products = <<>>
    /\ users = <<>>
    /\ next_id = [category |-> 1, product |-> 1, user |-> 1]
    /\ Product_product = "column"
    /\ issued = {}
    /\ now = 0
    /\ response = NoResponse
    /\ listing = Idle
    /\ page_response = NoPage

\* the primary keys handed out so far are at most k per table
Capped(k) ==
    /\ next_id.category <= k + 1
    /\ next_id.product <= k + 1
    /\ next_id.user <= k + 1

\* SpecCategories: the handlers that write categories, POST /products/
\* among them
NextCategories ==
    \/ \E id \in IdArgs, d \in Opt(Opt(NameArgs)) : CategoryResource_patch(id, d)
    \/ \E id \in IdArgs : CategoryResource_delete(id)
    \/ \E d \in Opt(NameArgs) : CategoryListResource_post(d) /\ Capped(MaxId)'
    \/ \E n \in NameArgs, c \in NameArgs :
           /\ ProductListResource_post(
                  <<[product |-> n, price |-> 1, category |-> c]>>)
           /\ Capped(MaxId)'
    \/ Deliver

SpecCategories == InitCatalog /\ [][NextCategories]_vars

\* SpecProducts: the handlers that write products, all of one category
NextProducts ==
    \/ \E id \in IdArgs, d \in ProductDicts : ProductResource_patch(id, d)
    \/ \E id \in IdArgs : ProductResource_delete(id)
    \/ \E d \in Opt([product : NameArgs, price : PriceArgs, category : {1}]) :
           ProductListResource_post(d) /\ Capped(MaxId)'
    \/ Deliver

SpecProducts == InitCatalog /\ [][NextProducts]_vars

\* SpecWrites: every handler that creates, updates or deletes a row, under
\* the requests that pass validation, each commit failing or not
NextWrites ==
    \/ \E id \in 1..MaxWriteId, n \in Opt(Names) : CategoryResource_patch(id, <<n>>)
    \/ \E id \in 1..MaxWriteId : CategoryResource_delete(id)
    \/ \E n \in Names : CategoryListResource_post(<<n>>) /\ Capped(MaxWriteId)'
    \/ \E id \in 1..MaxWriteId, n \in Opt(Names), p \in Opt(Prices) :
           ProductResource_patch(id, [product |-> n, price |-> p])
    \/ \E id \in 1..MaxWriteId : ProductResource_delete(id)
    \/ \E n \in Names, c \in Names :
           /\ ProductListResource_post(
                  <<[product |-> n, price |-> 1, category |-> c]>>)
           /\ Capped(MaxWriteId)'
    \/ \E n \in Names :
           /\ UserListResource_post(<<[name |-> n, email |-> n, password |-> 1]>>)
           /\ Capped(MaxWriteId)'
    \/ Deliver

SpecWrites == InitCatalog /\ [][NextWrites]_vars

\* SpecUsers: registration and e-mail confirmation, from an empty table
NextUsers ==
    \/ \E d \in UserRequests : UserListResource_post(d) /\ Capped(MaxId)'
    \/ \E token \in Tokens : ConfirmTokenResources_get(token)
    \/ Tick
    \/ Deliver

SpecUsers == InitCatalog /\ [][NextUsers]_vars

\* SpecPaginate: the list endpoints over tables that no request changes,
\* of every size up to MaxRows
StaticCategory(i) == [id |-> i, name |-> i]
StaticProduct(i) == [id |-> i, product |-> i, price |-> 1, category |-> 1]
StaticUser(i) == [id |-> i, name |-> i, email |-> i, confirmed |-> FALSE,
                  confirmed_on |-> <<>>]

InitPaginate ==
    \E n \in 0..MaxRows :
        /\ categories = [i \in 1..n |-> StaticCategory(i)]
        /\ products = [i \in 1..n |-> StaticProduct(i)]
        /\ users = [i \in 1..n |-> StaticUser(i)]
        /\ next_id = [category |-> n + 1, product |-> n + 1, user |-> n + 1]
        /\ Product_product = "column"
        /\ issued = {}
        /\ now = 0
        /\ response = NoResponse
        /\ listing = Idle
        /\ page_response = NoPage

NextPaginate ==
    \/ \E page \in PageArgs, per_page \in PerPageArgs :
           ProductListResource_get_count(page, per_page)
    \/ ProductListResource_get_slice
    \/ \E page \in PageArgs, per_page \in PerPageArgs :
           UserListResource_get_count(page, per_page)
    \/ UserListResource_get_slice
    \/ CategoryListResource_get
    \/ Deliver
    \/ DeliverPage

SpecPaginate == InitPaginate /\ [][NextPaginate]_vars

\* SpecListing: a paginated listing of the products while other requests
\* create and delete products
NextListing ==
    \/ \E page \in Opt(1..MaxId), per_page \in SmallPerPageArgs :
           ProductListResource_get_count(page, per_page)
    \/ ProductListResource_get_slice
    \/ \E n \in Names :
           /\ ProductListResource_post(
                  <<[product |-> n, price |-> 1, category |-> 1]>>)
           /\ Capped(MaxId)'
    \/ \E id \in IdArgs : ProductResource_delete(id)
    \/ Deliver
    \/ DeliverPage

SpecListing == InitCatalog /\ [][NextListing]_vars

\* ------------------------------------------------------------------ claims
Min(a, b) == IF a < b THEN a ELSE b
Max(a, b) == IF a > b THEN a ELSE b

\* the least q with q * b >= a
Ceil(a, b) == CHOOSE q \in 0..a : q * b >= a /\ (q = 0 \/ (q - 1) * b < a)

\* the size of the table a listing lists, and the page size its request asks
TableSize(resource) ==
    IF resource = "api.productlistresource" THEN Len(products) ELSE Len(users)
ExpectedPerPage(per_page_arg) ==
    IF per_page_arg = <<>> THEN DefaultPerPage
    ELSE Max(1, Min(per_page_arg[1], MaxPerPage))
Returned == page_response.status = HTTP_200_OK
ThePage == page_response.page[1]

\* C1: a returned page of /products/ or /users/ has a next link iff
\* page < pageCount and a prev link iff page > 1, with
\* pageCount = ceil(totalCount / perPage); the links name the adjacent pages.
C1_Links ==
    Returned =>
        LET pageCount == Ceil(TableSize(page_response.resource), ThePage.per_page)
        IN  /\ ThePage.page >= 1
            /\ ThePage.total = TableSize(page_response.resource)
            /\ ThePage.pages = pageCount
            /\ (ThePage.next # <<>>) <=> (ThePage.page < pageCount)
            /\ (ThePage.prev # <<>>) <=> (ThePage.page > 1)
            /\ ThePage.next # <<>> =>
                   ThePage.next[1] = [page |-> ThePage.page + 1,
                                      per_page |-> ThePage.per_page]
            /\ ThePage.prev # <<>> =>
                   ThePage.prev[1] = [page |-> ThePage.page - 1,
                                      per_page |-> ThePage.per_page]

\* C1 witness: a page of /users/ in the middle, with both links
C1_Witness ==
    /\ Returned
    /\ page_response.resource = "api.userlistresource"
    /\ ThePage.next # <<>>
    /\ ThePage.prev # <<>>

\* C2: over unchanged tables, a page in [1, pageCount] holds perPage items,
\* the last one totalCount - (page-1)*perPage; no page holds more than
\* perPage; the items are the rows at the offset, in the table's order.
C2_ItemCount ==
    Returned =>
        LET total == TableSize(page_response.resource)
            pageCount == Ceil(total, ThePage.per_page)
            offset == (ThePage.page - 1) * ThePage.per_page
        IN  /\ Len(ThePage.items) <= ThePage.per_page
            /\ ThePage.page < pageCount =>
                   Len(ThePage.items) = ThePage.per_page
            /\ ThePage.page = pageCount =>
                   Len(ThePage.items) = total - offset
            /\ \A i \in DOMAIN ThePage.items : ThePage.items[i].id = offset + i

\* C2 witness: a last page of /products/, after the first, that is not full
C2_Witness ==
    /\ Returned
    /\ page_response.resource = "api.productlistresource"
    /\ ThePage.page > 1
    /\ ThePage.page = ThePage.pages
    /\ Len(ThePage.items) > 0
    /\ Len(ThePage.items) < ThePage.per_page

\* C3: a request for a page >= 1 whose offset (page-1)*perPage is >= totalCount
\* while totalCount > 0 is answered 404 (PageOutOfRange) and no page; every
\* other one is answered with a page.  With 101 rows and per_page=25, page 5
\* holds 1 item and page 6 fails.
C3_OutOfRange ==
    (page_response.resource # "" /\ PageNumber(page_response.request[1]) >= 1) =>
        LET total == TableSize(page_response.resource)
            page == PageNumber(page_response.request[1])
            per_page == ExpectedPerPage(page_response.request[2])
        IN  /\ IF (page - 1) * per_page >= total /\ total > 0
               THEN /\ page_response.status = HTTP_404_NOT_FOUND
                    /\ page_response.error = "PageOutOfRange"
                    /\ page_response.page = <<>>
               ELSE Returned
            /\ (total = 101 /\ page_response.request = << <<5>>, <<25>> >>) =>
                   (Returned /\ Len(ThePage.items) = 1)
            /\ (total = 101 /\ page_response.request = << <<6>>, <<25>> >>) =>
                   ~Returned

\* C3 witness: page 6 of 101 products at 25 a page is refused
C3_Witness ==
    /\ page_response.resource = "api.productlistresource"
    /\ Len(products) = 101
    /\ page_response.request = << <<6>>, <<25>> >>
    /\ page_response.status = HTTP_404_NOT_FOUND
    /\ page_response.error = "PageOutOfRange"

\* C4: the page size of a listing is the per_page parameter clamped to
\* [1, maxPerPage], the default when absent; a per_page above the maximum is
\* served with the maximum, never refused for it and never with more items.
C4_Clamp ==
    page_response.resource # "" =>
        LET total == TableSize(page_response.resource)
            page == PageNumber(page_response.request[1])
            per_page == ExpectedPerPage(page_response.request[2])
        IN  /\ Returned =>
                   /\ ThePage.per_page = per_page
                   /\ ThePage.self.per_page = per_page
                   /\ Len(ThePage.items) <= per_page
                   /\ Len(ThePage.items) = Min(per_page,
                                               Max(0, total - (page - 1) * per_page))
            /\ ~Returned =>
                   \/ page < 1
                   \/ (page - 1) * per_page >= total /\ total > 0

\* C4 witness: per_page ten times the maximum is served with a full page of
\* the maximum
C4_Witness ==
    /\ Returned
    /\ page_response.request[2] = <<10 * MaxPerPage>>
    /\ ThePage.per_page = MaxPerPage
    /\ Len(ThePage.items) = MaxPerPage

\* C5: a GET on every list endpoint (/categories/, /products/, /users/)
\* returns one bounded page: at most perPage items (so at most maxPerPage),
\* never the whole collection.
C5_EveryListBounded ==
    /\ Returned => Len(ThePage.items) <= ThePage.per_page
    /\ response.handler = "CategoryListResource.get" =>
           Len(response.body) <= MaxPerPage

\* C6: the count and the slice of a listing are two reads of the table: the
\* returned page takes totalCount, pageCount and links from the table as it
\* was at the first read and its items from the table as it is at the second,
\* whatever was committed in between.
C6_TwoReads ==
    [][(listing.pc = "counted" /\ listing'.pc = "idle") =>
          LET pg == page_response'.page[1]
              offset == (listing.page - 1) * listing.per_page
              rows == SubSeq(products, offset + 1,
                             Min(offset + listing.per_page, Len(products)))
          IN  /\ page_response'.status = HTTP_200_OK
              /\ pg.total = listing.total
              /\ pg.pages = Ceil(listing.total, listing.per_page)
              /\ (pg.next # <<>>) <=> (listing.page < pg.pages)
              /\ Len(pg.items) = Len(rows)
              /\ \A i \in DOMAIN rows : pg.items[i].id = rows[i].id]_vars

\* C6 witness: a returned page whose number of items is not the one its own
\* totalCount gives, min(perPage, totalCount - offset)
C6_Witness ==
    /\ Returned
    /\ page_response.resource = "api.productlistresource"
    /\ Len(ThePage.items) #
           Min(ThePage.per_page,
               Max(0, ThePage.total - (ThePage.page - 1) * ThePage.per_page))

\* C7: a database error raised by the commit of a create, update or delete
\* handler is answered with an HTTP error (400, or 401 from the delete
\* handlers) after the rollback, and the tables are as they were before the
\* request.
C7_ErrorLeavesNoEffect ==
    [][response'.rollback =>
          /\ response'.status \in {HTTP_400_BAD_REQUEST, HTTP_401_UNAUTHORIZED}
          /\ response'.error = "SQLAlchemyError"
          /\ categories' = categories
          /\ products' = products
          /\ users' = users]_vars

\* C7 witness: POST /products/ naming a category that did not exist has
\* failed, and there is still no category
C7_Witness ==
    /\ response.rollback
    /\ response.handler = "ProductListResource.post"
    /\ categories = <<>>
    /\ products = <<>>

\* C8: after requests handled one at a time no two categories have the same
\* name; a POST /categories/ or PATCH /categories/<id> whose name is held by
\* another category is answered 400 and changes no table.
UniqueCategoryNames(table) ==
    \A i, j \in DOMAIN table : table[i].name = table[j].name => i = j
NameHeldByOther(id, name) ==
    \E i \in DOMAIN categories :
        categories[i].name = name /\ categories[i].id # id
C8_WouldDuplicate ==
    \/ /\ response'.handler = "CategoryListResource.post"
       /\ response'.request # <<>>
       /\ NameHeldByOther(0, response'.request[1])
    \/ /\ response'.handler = "CategoryResource.patch"
       /\ HasId(categories, response'.request[1])
       /\ response'.request[2] # <<>>
       /\ response'.request[2][1] # <<>>
       /\ NameHeldByOther(response'.request[1], response'.request[2][1][1])
C8_UniqueCategoryNames ==
    [][/\ UniqueCategoryNames(categories')
       /\ C8_WouldDuplicate =>
              /\ response'.status = HTTP_400_BAD_REQUEST
              /\ categories' = categories
              /\ products' = products]_vars

\* C8 witness: a PATCH that would rename one of two categories to the name
\* of the other has been refused
C8_Witness ==
    /\ response.handler = "CategoryResource.patch"
    /\ response.status = HTTP_400_BAD_REQUEST
    /\ response.error = "A category with the same name already exists"
    /\ Len(categories) = 2

\* C9: confirmation is one-way and happens once.  For the user the token's
\* address identifies: unconfirmed, the request sets confirmed and
\* confirmed_on and is answered 201; confirmed, it is answered 200 and changes
\* nothing; an invalid or expired token is answered 400 and changes nothing.
\* No step changes a confirmed user.
C9_TokenUser == UserByEmail(response'.request.email)
C10_RejectedPatchChangesNothing ==
    [][(response'.handler = "ProductResource.patch"
        /\ response'.status = HTTP_400_BAD_REQUEST) =>
          /\ products' = products
          /\ categories' = categories]_vars

\* C10 witness: a PATCH renaming one of two products to the name of the other
\* has been refused
C10_Witness ==
    /\ response.handler = "ProductResource.patch"
    /\ response.status = HTTP_400_BAD_REQUEST
    /\ response.error = "A message with the same name already exists"
    /\ Len(products) = 2

====
